---- MODULE Spec2Model ----
(***************************************************************************)
(* A model of package imgo (vcaesar/imgo): the BMP header / pixel-buffer   *)
(* builder EncodeImg, the RGBA view ConvertToRGBA, and the extension       *)
(* dispatch of Read / Save.                                                *)
(*                                                                         *)
(* Go's int is taken to be 64 bits wide.  A Go int that may exceed TLC's   *)
(* integers (the product d.Y * step) and every uint32 header field is kept *)
(* as a little-endian sequence of bytes: 8 bytes for an int, 4 for a       *)
(* uint32, so that the conversion uint32(x) is the truncation it is in Go. *)
(***************************************************************************)
EXTENDS Integers, Sequences, FiniteSets, TLC

VARIABLES m, ret

vars == <<m, ret>>

(***************************************************************************)
(* Bounds of the model.                                                    *)
(***************************************************************************)
MaxWidth == 5
MaxHeight == 2
MaxPad == 1
MaxPal == 3

\* Dimensions at which d.Y * step reaches the 32-bit boundary: 65536 rows of
\* 65536 bytes are 2^32 bytes, and 2^30 - 1 rows of 4 bytes are 2^32 - 4.
BigWidths == {65536}
BigHeights == {65536, 1073741823}

\* Lengths of colour tables around the 256-entry limit of the palette.
LongPals == {256, 257}

(***************************************************************************)
(* Machine integers.                                                       *)
(***************************************************************************)

\* A non-negative Go int n (n < 2^31 in this model) as its 8 bytes.
Int64(n) == [i \in 1..8 |-> IF i <= 4 THEN (n \div (256 ^ (i - 1))) % 256 ELSE 0]

RECURSIVE ColSum(_, _, _, _)
ColSum(a, b, k, i) ==
    IF i > k THEN 0 ELSE a[i] * b[k + 1 - i] + ColSum(a, b, k, i + 1)

RECURSIVE MulCarry(_, _, _, _)
MulCarry(a, b, k, carry) ==
    IF k > 8 THEN <<>>
    ELSE LET t == ColSum(a, b, k, 1) + carry
         IN  <<t % 256>> \o MulCarry(a, b, k + 1, t \div 256)

\* a * b on Go ints: the low 64 bits of the product.
Int64Mul(a, b) == MulCarry(a, b, 1, 0)

\* The conversion uint32(x) of a Go int: its low 32 bits.
uint32(x) == SubSeq(x, 1, 4)

RECURSIVE AddCarry(_, _, _, _)
AddCarry(a, b, i, carry) ==
    IF i > 4 THEN <<>>
    ELSE LET t == a[i] + b[i] + carry
         IN  <<t % 256>> \o AddCarry(a, b, i + 1, t \div 256)

\* a + b on uint32: the sum modulo 2^32.
U32Add(a, b) == AddCarry(a, b, 1, 0)

\* The conversion uint8(x) of a uint32 that fits TLC's integers.
uint8(x) == x % 256

(***************************************************************************)
(* image.Rectangle, image.Point.                                           *)
(***************************************************************************)
Pt(x, y) == [X |-> x, Y |-> y]

\* image.Rect: the rectangle with its corners put in order.
Rect(x0, y0, x1, y1) ==
    [Min |-> Pt(IF x0 > x1 THEN x1 ELSE x0, IF y0 > y1 THEN y1 ELSE y0),
     Max |-> Pt(IF x0 > x1 THEN x0 ELSE x1, IF y0 > y1 THEN y0 ELSE y1)]

Bounds(img) == img.Rect

\* Rectangle.Size: Max - Min, negative for a rectangle that is not well formed.
Size(r) == Pt(r.Max.X - r.Min.X, r.Max.Y - r.Min.Y)

Empty(r) == r.Min.X >= r.Max.X \/ r.Min.Y >= r.Max.Y

\* (*image.RGBA).Opaque, (*image.NRGBA).Opaque: true of an empty rectangle,
\* otherwise whether every pixel's alpha is 0xff.
Opaque(img) == Empty(img.Rect) \/ img.alphaFull

(***************************************************************************)
(* color.Color.RGBA(): 16-bit alpha-premultiplied channels.                *)
(***************************************************************************)
RGBA(c) ==
    CASE c.kind = "RGBA"   -> [r |-> c.R * 257, g |-> c.G * 257,
                               b |-> c.B * 257, a |-> c.A * 257]
      [] c.kind = "RGBA64" -> [r |-> c.R, g |-> c.G, b |-> c.B, a |-> c.A]
      [] c.kind = "NRGBA"  -> [r |-> ((c.R * 257) * c.A) \div 255,
                               g |-> ((c.G * 257) * c.A) \div 255,
                               b |-> ((c.B * 257) * c.A) \div 255,
                               a |-> c.A * 257]

(***************************************************************************)
(* Source images.                                                          *)
(***************************************************************************)
\* Bytes per pixel of the backing buffer of each concrete image type; a
\* foreign image.Image ("Other") exposes no buffer.
BytesPerPixel(kind) ==
    CASE kind \in {"Gray", "Paletted"} -> 1
      [] kind \in {"RGBA", "NRGBA"}    -> 4
      [] OTHER                         -> 0

NilSlice == [buf |-> "nil", len |-> Int64(0)]

Max0(n) == IF n < 0 THEN 0 ELSE n

\* An image of the given type with bounds o .. o + (w, h).  Its stride is the
\* width of the buffer it was cut from: pad pixels wider than the image (0 for
\* an image made by image.NewGray and the like, more for a SubImage).
NewImage(kind, o, w, h, pad, af, pal) ==
    LET stride == BytesPerPixel(kind) * (Max0(w) + pad)
    IN  [kind      |-> kind,
         Rect      |-> [Min |-> o, Max |-> Pt(o.X + w, o.Y + h)],
         Stride    |-> stride,
         Pix       |-> IF stride = 0 \/ h <= 0 \/ w <= 0
                       THEN [buf |-> "m.Pix", len |-> Int64(0)]
                       ELSE [buf |-> "m.Pix",
                             len |-> Int64Mul(Int64(stride), Int64(h))],
         alphaFull |-> af,
         Palette   |-> pal]

Origins == {Pt(0, 0), Pt(1, 2)}
Widths == {-1} \cup (0..MaxWidth) \cup BigWidths
Heights == {-1} \cup (0..MaxHeight) \cup BigHeights
Pads == 0..MaxPad

\* Colour i of a colour table: 8-bit opaque colours (entry 0 is pure red),
\* 16-bit colours whose high and low bytes differ, or 8-bit colours with a
\* partial alpha.
Colour(p, i) ==
    CASE p = "rgba8"  -> [kind |-> "RGBA",
                          R |-> IF i = 0 THEN 255 ELSE (7 * i) % 256,
                          G |-> IF i = 0 THEN 0 ELSE (13 * i + 1) % 256,
                          B |-> IF i = 0 THEN 0 ELSE (255 - i) % 256,
                          A |-> 255]
      [] p = "rgba64" -> [kind |-> "RGBA64",
                          R |-> (4660 + i) % 65536,
                          G |-> (43981 + 5 * i) % 65536,
                          B |-> (255 + 256 * i) % 65536,
                          A |-> 65535]
      [] p = "nrgba"  -> [kind |-> "NRGBA",
                          R |-> 200, G |-> (3 * i) % 256, B |-> 255, A |-> 128]

PalPatterns == {"rgba8", "rgba64", "nrgba"}
PalLens == (0..MaxPal) \cup LongPals
Palettes == {[i \in 1..n |-> Colour(p, i - 1)] : n \in PalLens, p \in PalPatterns}

Images ==
    {NewImage(k, o, w, h, pad, FALSE, <<>>) :
        k \in {"Gray"}, o \in Origins, w \in Widths, h \in Heights, pad \in Pads}
    \cup
    UNION {{NewImage("Paletted", o, w, h, 0, FALSE, pal) :
              o \in Origins, w \in Widths, h \in Heights} :
           pal \in Palettes}
    \cup
    UNION {{NewImage(k, o, w, h, pad, af, <<>>) :
              k \in {"RGBA", "NRGBA"}, o \in Origins, w \in Widths,
              h \in Heights, pad \in Pads} :
           af \in BOOLEAN}
    \cup
    {NewImage("Other", o, w, h, 0, FALSE, <<>>) :
        o \in Origins, w \in Widths, h \in Heights}

(***************************************************************************)
(* EncodeImg.                                                              *)
(***************************************************************************)
Nil == "nil"
NegativeBounds == "imgo: negative bounds"

fileHeaderLen == 14
infoHeaderLen == 40
paletteLen == 1024
maxColours == 256

\* The guard with the test of d.Y left out.
negativeBoundsGuardX(d) == d.X < 0

\* The guard of the early return.
negativeBounds(d) == d.X < 0 \/ d.Y < 0

\* n rounded up to a multiple of 4: (n + 3) &^ 3.
AndNot3(n) == n - (n % 4)

\* The row stride each case of the first type switch computes.
step(img, d, opaque) ==
    CASE img.kind \in {"Gray", "Paletted"} -> AndNot3(d.X + 3)
      [] img.kind \in {"RGBA", "NRGBA"}    ->
            IF opaque THEN AndNot3(3 * d.X + 3) ELSE 4 * d.X
      [] OTHER                             -> AndNot3(3 * d.X + 3)

\* The bit depth with the opaque case of RGBA and NRGBA left out.
bppNoOpaque(img, opaque) ==
    CASE img.kind \in {"Gray", "Paletted"} -> 8
      [] img.kind \in {"RGBA", "NRGBA"}    -> 32
      [] OTHER                             -> 24

\* The bit depth each case of the first type switch sets.
bpp(img, opaque) ==
    CASE img.kind \in {"Gray", "Paletted"} -> 8
      [] img.kind \in {"RGBA", "NRGBA"}    -> IF opaque THEN 24 ELSE 32
      [] OTHER                             -> 24

\* A byte slice together with whether a store into it panicked.
NilBytes == [b |-> <<>>, panic |-> FALSE]

\* The four bytes without the shifts: uint8(b), uint8(g), uint8(r), 0xFF.
paletteEntryLow(c) ==
    LET q == RGBA(c)
    IN  <<uint8(q.b), uint8(q.g), uint8(q.r), 255>>

\* The four bytes stored for colour c: uint8(b >> 8), uint8(g >> 8),
\* uint8(r >> 8), 0xFF.
paletteEntry(c) ==
    LET q == RGBA(c)
    IN  <<uint8(q.b \div 256), uint8(q.g \div 256), uint8(q.r \div 256), 255>>

\* The loop condition with the test i < 256 left out.
loopGuardLenOnly(P, i) == i < Len(P)

\* The loop condition over the colour table.
loopGuard(P, i) == i < Len(P) /\ i < maxColours

\* The number of times the loop body runs: the first i at which the loop
\* condition fails.
iterations(P) ==
    LET stops == {i \in 0..(Len(P) + 1) : ~loopGuard(P, i)}
    IN  CHOOSE n \in stops : \A k \in stops : n <= k

\* make([]byte, size) and the loop over the colour table: iteration i stores
\* the entry of colour i at bytes 4*i .. 4*i+3, every other byte stays 0, and
\* a store past the end of the slice panics.
palettedLoop(size, P) ==
    LET n       == iterations(P)
        entries == [i \in 0..(n - 1) |-> paletteEntry(P[i + 1])]
    IN  [b |-> [k \in 1..size |->
                  IF (k - 1) \div 4 < n
                  THEN entries[(k - 1) \div 4][((k - 1) % 4) + 1]
                  ELSE 0],
         panic |-> 4 * n > size]

\* The grey ramp the loop over 0..255 stores.
grayPalette ==
    [b |-> [k \in 1..paletteLen |->
              IF k % 4 = 0 THEN 255 ELSE uint8((k - 1) \div 4)],
     panic |-> FALSE]

buildPalette(img) ==
    CASE img.kind = "Gray"     -> grayPalette
      [] img.kind = "Paletted" -> palettedLoop(paletteLen, img.Palette)
      [] OTHER                 -> NilBytes

U32(n) == uint32(Int64(n))

\* The header after the first type switch.
header(img, d, st, palette, depth) ==
    LET imageSize == uint32(Int64Mul(Int64(d.Y), Int64(st)))
        plen      == U32(Len(palette.b))
        base      == U32(fileHeaderLen + infoHeaderLen)
        withPal   == img.kind \in {"Gray", "Paletted"}
    IN  [sigBM           |-> <<"B", "M">>,
         fileSize        |-> IF withPal
                             THEN U32Add(base, U32Add(plen, imageSize))
                             ELSE U32Add(base, imageSize),
         resverved       |-> <<0, 0>>,
         pixOffset       |-> IF withPal THEN U32Add(base, plen) ELSE base,
         dibHeaderSize   |-> U32(infoHeaderLen),
         width           |-> U32(d.X),
         height          |-> U32(d.Y),
         colorPlane      |-> 1,
         bpp             |-> depth,
         compression     |-> U32(0),
         imageSize       |-> imageSize,
         xPixelsPerMeter |-> U32(0),
         yPixelsPerMeter |-> U32(0),
         colorUse        |-> U32(0),
         colorImportant  |-> U32(0)]

\* The stride computed for the header returned in place of the image's own.
returnedStrideStep(img, st) == st

\* The stride the second type switch returns for a concrete image type.
returnedStride(img, st) == img.Stride

\* The second type switch: the image's own buffer and stride, or nothing.
returned(img, st) ==
    IF img.kind \in {"Gray", "Paletted", "RGBA", "NRGBA"}
    THEN [pix |-> img.Pix, stride |-> returnedStride(img, st)]
    ELSE [pix |-> NilSlice, stride |-> 0]

EncodeImg(img) ==
    LET d == Size(Bounds(img))
    IN  IF negativeBounds(d)
        THEN [pix |-> NilSlice, stride |-> 0, err |-> NegativeBounds,
              panic |-> FALSE]
        ELSE
          LET opaque  == IF img.kind \in {"RGBA", "NRGBA"} THEN Opaque(img)
                         ELSE FALSE
              st      == step(img, d, opaque)
              palette == buildPalette(img)
              h       == header(img, d, st, palette, bpp(img, opaque))
              out     == IF d.X = 0 \/ d.Y = 0
                         THEN [pix |-> NilSlice, stride |-> 0]
                         ELSE returned(img, st)
          IN  [pix |-> out.pix, stride |-> out.stride, err |-> Nil,
               panic |-> palette.panic,
               h |-> h, step |-> st, palette |-> palette.b, opaque |-> opaque]

(***************************************************************************)
(* ConvertToRGBA.                                                          *)
(***************************************************************************)
Width(img) == Bounds(img).Max.X

Height(img) == Bounds(img).Max.Y

ConvertToRGBA(img) ==
    LET e == EncodeImg(img)
    IN  [Pix    |-> e.pix,
         Stride |-> e.stride,
         Rect   |-> Rect(0, 0, Width(img), Height(img))]

(***************************************************************************)
(* The calls of a client on one image.                                     *)
(***************************************************************************)
Init ==
    /\ m \in Images
    /\ ret = [op |-> "none"]

CallEncodeImg ==
    /\ ret' = [op |-> "EncodeImg", out |-> EncodeImg(m)]
    /\ UNCHANGED m

CallConvertToRGBA ==
    /\ ret' = [op |-> "ConvertToRGBA", r |-> ConvertToRGBA(m)]
    /\ UNCHANGED m

Next == CallEncodeImg \/ CallConvertToRGBA

Spec == Init /\ [][Next]_vars

(***************************************************************************)
(* Read, Save: the codec is chosen by the path.  A path is the sequence of *)
(* its characters.  The file system and the codecs are outside the         *)
(* package: what os.Open / os.Create and the codec return is an input.     *)
(***************************************************************************)
jpeg == <<"j", "p", "e", "g">>
png == <<"p", "n", "g">>
gif == <<"g", "i", "f">>
bmp == <<"b", "m", "p">>
tiff == <<"t", "i", "f", "f">>

DecodeFormatError == "Decode: Error format"
EncodeFormatError == "Encode: ERROR FORMAT"

\* A nil image.Image.
NilImage == [kind |-> "nil"]

RECURSIVE Split(_, _)
\* strings.Split(s, sep) for a one-character sep.
Split(s, sep) ==
    LET at == {i \in 1..Len(s) : s[i] = sep}
    IN  IF at = {} THEN <<s>>
        ELSE LET i == CHOOSE j \in at : \A k \in at : j <= k
             IN  <<SubSeq(s, 1, i - 1)>> \o Split(SubSeq(s, i + 1, Len(s)), sep)

\* The component after the first dot taken in place of the last one.
getFmSecond(path) ==
    LET p == Split(path, ".")
    IN  IF Len(p) >= 2 THEN p[2] ELSE p[1]

getFm(path) ==
    LET p == Split(path, ".")
    IN  p[Len(p)]

\* Decode: res is what the decoder that is called returns.
Decode(fm, res) ==
    CASE fm = jpeg -> [codec |-> "jpeg.Decode", img |-> res.img, err |-> res.err]
      [] fm = png  -> [codec |-> "png.Decode", img |-> res.img, err |-> res.err]
      [] fm = gif  -> [codec |-> "gif.Decode", img |-> res.img, err |-> res.err]
      [] fm = bmp  -> [codec |-> "bmp.Decode", img |-> res.img, err |-> res.err]
      [] fm = tiff -> [codec |-> "tiff.Decode", img |-> res.img, err |-> res.err]
      [] OTHER     -> [codec |-> "none", img |-> NilImage, err |-> DecodeFormatError]

\* Encode: res is what the encoder that is called returns.
Encode(fm, res) ==
    CASE fm = jpeg -> [codec |-> "jpeg.Encode", err |-> res.err]
      [] fm = png  -> [codec |-> "png.Encode", err |-> res.err]
      [] fm = gif  -> [codec |-> "gif.Encode", err |-> res.err]
      [] fm = bmp  -> [codec |-> "bmp.Encode", err |-> res.err]
      [] fm = tiff -> [codec |-> "tiff.Encode", err |-> res.err]
      [] OTHER     -> [codec |-> "none", err |-> EncodeFormatError]

Read(path, openErr, res) ==
    IF openErr # Nil
    THEN [codec |-> "none", img |-> NilImage, err |-> openErr]
    ELSE Decode(getFm(path), res)

Save(path, img, createErr, res) ==
    IF createErr # Nil
    THEN [codec |-> "none", err |-> createErr]
    ELSE Encode(getFm(path), res)

\* The paths tried: a stem, a dot and an extension, among them paths with
\* several dots, an empty stem and an empty extension; paths with no dot; and
\* paths whose last dot is in a directory name.
Stems == {<<>>, <<"a">>, <<"a", ".", "b">>, <<"a", ".", "p", "n", "g">>}
Exts == {jpeg, png, gif, bmp, tiff,
         <<"j", "p", "g">>, <<"J", "P", "E", "G">>, <<"t", "x", "t">>, <<>>}
Paths ==
    {st \o <<".">> \o e : st \in Stems, e \in Exts}
    \cup Exts
    \cup {<<"a", ".", "d", "/", "x">>, <<"a", ".", "p", "n", "g", "/", "x">>}

FsErrors == {Nil, "file system error"}
CodecError == "codec error"

\* What a decoder may hand back.
DecodedImages ==
    {NewImage("Other", Pt(0, 0), 2, 2, 0, FALSE, <<>>),
     NewImage("Gray", Pt(0, 0), 2, 2, 0, FALSE, <<>>)}
DecodeResults ==
    {[img |-> i, err |-> Nil] : i \in DecodedImages}
    \cup {[img |-> NilImage, err |-> CodecError]}
EncodeResults == {[err |-> Nil], [err |-> CodecError]}

InitIO ==
    /\ m = NilImage
    /\ ret = [op |-> "none"]

\* img, err := Read(path)
CallRead ==
    \E path \in Paths, openErr \in FsErrors, res \in DecodeResults :
        LET out == Read(path, openErr, res)
        IN  /\ ret' = [op |-> "Read", path |-> path, fsErr |-> openErr,
                       res |-> res, out |-> out]
            /\ m' = IF out.err = Nil THEN out.img ELSE m

\* err = Save(path, img), on an image read before
CallSave ==
    \E path \in Paths, createErr \in FsErrors, res \in EncodeResults :
        /\ m # NilImage
        /\ ret' = [op |-> "Save", path |-> path, fsErr |-> createErr,
                   res |-> res, out |-> Save(path, m, createErr, res)]
        /\ UNCHANGED m

NextIO == CallRead \/ CallSave

SpecIO == InitIO /\ [][NextIO]_vars

(***************************************************************************)
(* Properties.                                                             *)
(*                                                                         *)
(* Header fields are compared as natural numbers: a little-endian byte     *)
(* sequence stands for the number it spells, whatever its length.          *)
(***************************************************************************)
RECURSIVE Trim(_)
Trim(b) ==
    IF Len(b) > 0 /\ b[Len(b)] = 0 THEN Trim(SubSeq(b, 1, Len(b) - 1)) ELSE b

NatEq(a, b) == Trim(a) = Trim(b)

Digit(a, i) == IF i <= Len(a) THEN a[i] ELSE 0

RECURSIVE NatAddFrom(_, _, _, _)
NatAddFrom(a, b, i, carry) ==
    IF i > Len(a) /\ i > Len(b)
    THEN <<carry>>
    ELSE LET t == Digit(a, i) + Digit(b, i) + carry
         IN  <<t % 256>> \o NatAddFrom(a, b, i + 1, t \div 256)

\* The sum of two naturals, exact.
NatAdd(a, b) == NatAddFrom(a, b, 1, 0)

\* The width and height of the image: the size of its bounding box.
W == m.Rect.Max.X - m.Rect.Min.X
H == m.Rect.Max.Y - m.Rect.Min.Y

Encoded == ret.op = "EncodeImg"
Built == Encoded /\ ret.out.err = Nil

LeastMultipleOf4AtLeast(n) == CHOOSE k \in n..(n + 3) : k % 4 = 0

EightBit == m.kind \in {"Gray", "Paletted"}
ThirtyTwoBit == m.kind \in {"RGBA", "NRGBA"} /\ ~Opaque(m)

\* C1: every header EncodeImg builds has fileSize = pixelDataOffset +
\* imageDataSize, as numbers.
C1_FileSizeIsOffsetPlusData ==
    Built => NatEq(ret.out.h.fileSize,
                   NatAdd(ret.out.h.pixOffset, ret.out.h.imageSize))

\* C2: EncodeImg returns an error exactly when the width or the height of the
\* bounding box is negative, and then pix is empty and stride is 0.
C2_ErrorIffNegativeBounds ==
    Encoded =>
        /\ (ret.out.err # Nil) <=> (W < 0 \/ H < 0)
        /\ ret.out.err # Nil =>
              /\ ret.out.err = NegativeBounds
              /\ ret.out.pix.len = Int64(0)
              /\ ret.out.stride = 0

C2_Witness ==
    /\ Encoded
    /\ W > 0 /\ H < 0
    /\ ret.out.err = NegativeBounds

\* C3: the row stride is the least multiple of 4 that is >= W (8 bit),
\* >= 3*W (24 bit), or is 4*W (32 bit), and the imageDataSize field is the
\* number H * rowStride.
C3_StrideAndImageSize ==
    Built =>
        /\ ret.out.step = (IF EightBit THEN LeastMultipleOf4AtLeast(W)
                           ELSE IF ThirtyTwoBit THEN 4 * W
                           ELSE LeastMultipleOf4AtLeast(3 * W))
        /\ NatEq(ret.out.h.imageSize,
                 Int64Mul(Int64(H), Int64(ret.out.step)))

\* C4: bitsPerPixel and pixelDataOffset follow from the format alone, and a
\* palette of 1024 bytes exists exactly when bitsPerPixel is 8.
C4_DepthAndOffsetByFormat ==
    Built =>
        /\ EightBit => ret.out.h.bpp = 8 /\ ret.out.h.pixOffset = <<54, 4, 0, 0>>
        /\ m.kind \in {"RGBA", "NRGBA"} =>
              /\ ret.out.h.bpp = (IF Opaque(m) THEN 24 ELSE 32)
              /\ ret.out.h.pixOffset = <<54, 0, 0, 0>>
        /\ m.kind = "Other" =>
              ret.out.h.bpp = 24 /\ ret.out.h.pixOffset = <<54, 0, 0, 0>>
        /\ Len(ret.out.palette) = (IF ret.out.h.bpp = 8 THEN 1024 ELSE 0)

C4_Witness ==
    /\ Built
    /\ m.kind = "NRGBA" /\ W = 2 /\ H = 2 /\ m.alphaFull
    /\ ret.out.h.bpp = 24
    /\ ret.out.palette = <<>>

\* The four palette bytes of colour entry i (counted from 0).
PaletteBytes(i) == SubSeq(ret.out.palette, 4 * i + 1, 4 * i + 4)

\* The 8-bit channels of a colour, as color.RGBAModel gives them; the stored
\* channels themselves for an opaque 8-bit colour.
Channels8(c) ==
    IF c.kind = "RGBA" /\ c.A = 255
    THEN [r |-> c.R, g |-> c.G, b |-> c.B]
    ELSE [r |-> (RGBA(c).r \div 256) % 256,
          g |-> (RGBA(c).g \div 256) % 256,
          b |-> (RGBA(c).b \div 256) % 256]

\* C5: the palette of an Indexed8 image is 1024 bytes, entry i below
\* min(n, 256) is (B, G, R, 255) of colour i, every later entry is zero, and
\* no store falls outside the 1024 bytes.
C5_IndexedPalette ==
    (Built /\ m.kind = "Paletted") =>
        /\ ~ret.out.panic
        /\ Len(ret.out.palette) = 1024
        /\ \A i \in 0..255 :
              PaletteBytes(i) =
                 (IF i < Len(m.Palette)
                  THEN LET c == Channels8(m.Palette[i + 1])
                       IN  <<c.b, c.g, c.r, 255>>
                  ELSE <<0, 0, 0, 0>>)

C5_Witness ==
    /\ Built
    /\ m.kind = "Paletted"
    /\ Len(m.Palette) = 257
    /\ m.Palette[1] = [kind |-> "RGBA", R |-> 255, G |-> 0, B |-> 0, A |-> 255]
    /\ PaletteBytes(0) = <<0, 0, 255, 255>>
    /\ PaletteBytes(255) # <<0, 0, 0, 0>>

\* C6: a zero-area image and an Other image both give an empty pix, stride
\* 0 and no error; imageDataSize is 0 for the first and greater than 0 for
\* an Other image with W > 0 and H > 0.
C6_EmptyResultTellsApart ==
    (Encoded /\ W >= 0 /\ H >= 0 /\ (W = 0 \/ H = 0 \/ m.kind = "Other")) =>
        /\ ret.out.err = Nil
        /\ ret.out.pix.len = Int64(0)
        /\ ret.out.stride = 0
        /\ (W = 0 \/ H = 0) => ret.out.h.imageSize = <<0, 0, 0, 0>>
        /\ (m.kind = "Other" /\ W > 0 /\ H > 0) =>
              ret.out.h.imageSize # <<0, 0, 0, 0>>

\* C8 as stated: for a Gray8 image with W > 0 and H > 0 the returned stride
\* is the native stride, a multiple of 4 equal to the header's row stride.
C8_GrayStridePadded ==
    (Built /\ m.kind = "Gray" /\ W > 0 /\ H > 0) =>
        /\ ret.out.stride = m.Stride
        /\ ret.out.stride % 4 = 0
        /\ ret.out.stride = ret.out.step

\* C8, amended: for a Gray8 image with W > 0 and H > 0 the returned stride
\* is the native stride and the returned buffer is the image's own.
C8_GrayStrideNative ==
    (Built /\ m.kind = "Gray" /\ W > 0 /\ H > 0) =>
        /\ ret.out.stride = m.Stride
        /\ ret.out.pix = m.Pix

C8_Witness ==
    /\ Built
    /\ m.kind = "Gray" /\ W = 5 /\ H = 2 /\ m.Stride = 5
    /\ ret.out.stride = 5
    /\ ret.out.step = 8

Sixteen(c) == c.kind = "RGBA64"

\* C9 as stated: a 16-bit channel value c of a colour-table entry gives the
\* palette byte c mod 256.
C9_PaletteByteIsLowByte ==
    (Built /\ m.kind = "Paletted") =>
        \A i \in 0..255 :
            (i < Len(m.Palette) /\ Sixteen(m.Palette[i + 1])) =>
                LET c == m.Palette[i + 1]
                IN  PaletteBytes(i) = <<c.B % 256, c.G % 256, c.R % 256, 255>>

\* C9, amended: each of the B, G and R bytes is bits 8..15 of the 16-bit
\* channel value RGBA() returns: a 16-bit channel value c gives c div 256.
C9_PaletteByteIsHighByte ==
    (Built /\ m.kind = "Paletted") =>
        \A i \in 0..255 :
            i < Len(m.Palette) =>
                LET c == m.Palette[i + 1]
                    q == RGBA(c)
                IN  /\ PaletteBytes(i)[1] = (q.b \div 256) % 256
                    /\ PaletteBytes(i)[2] = (q.g \div 256) % 256
                    /\ PaletteBytes(i)[3] = (q.r \div 256) % 256
                    /\ Sixteen(c) =>
                          PaletteBytes(i) =
                              <<c.B \div 256, c.G \div 256, c.R \div 256, 255>>

C9_Witness ==
    /\ Built
    /\ m.kind = "Paletted"
    /\ Len(m.Palette) >= 1
    /\ Sixteen(m.Palette[1])
    /\ m.Palette[1].R = 4660
    /\ PaletteBytes(0)[3] = 18

\* C10: the view ConvertToRGBA returns has the pix and stride EncodeImg
\* returns and the bounds (0,0)-(W,H), W and H the image's width and height.
C10_ViewBounds ==
    (ret.op = "ConvertToRGBA" /\ W > 0 /\ H > 0) =>
        /\ ret.r.Pix = EncodeImg(m).pix
        /\ ret.r.Stride = EncodeImg(m).stride
        /\ ret.r.Rect = [Min |-> Pt(0, 0), Max |-> Pt(W, H)]

\* The text after the last "." of a path: its longest suffix with no ".".
AfterLastDot(s) ==
    LET dots == {i \in 1..Len(s) : s[i] = "."}
        last == IF dots = {} THEN 0 ELSE CHOOSE i \in dots : \A j \in dots : j <= i
    IN  SubSeq(s, last + 1, Len(s))

CodecFor(op, ext) ==
    LET pkg == CASE ext = jpeg -> "jpeg" [] ext = png -> "png" [] ext = gif -> "gif"
                 [] ext = bmp -> "bmp" [] ext = tiff -> "tiff"
    IN  IF op = "Read" THEN <<pkg, "Decode">> ELSE <<pkg, "Encode">>

CodecCalled ==
    CASE ret.out.codec = "jpeg.Decode" -> <<"jpeg", "Decode">>
      [] ret.out.codec = "png.Decode"  -> <<"png", "Decode">>
      [] ret.out.codec = "gif.Decode"  -> <<"gif", "Decode">>
      [] ret.out.codec = "bmp.Decode"  -> <<"bmp", "Decode">>
      [] ret.out.codec = "tiff.Decode" -> <<"tiff", "Decode">>
      [] ret.out.codec = "jpeg.Encode" -> <<"jpeg", "Encode">>
      [] ret.out.codec = "png.Encode"  -> <<"png", "Encode">>
      [] ret.out.codec = "gif.Encode"  -> <<"gif", "Encode">>
      [] ret.out.codec = "bmp.Encode"  -> <<"bmp", "Encode">>
      [] ret.out.codec = "tiff.Encode" -> <<"tiff", "Encode">>
      [] OTHER                         -> <<>>

\* C7: once the file is open, Read and Save call the codec named by the text
\* after the last "." of the path when that is jpeg, png, gif, bmp or tiff,
\* and return what it returns; for any other text they return the format
\* error and call no codec.
C7_DispatchByExtension ==
    (ret.op \in {"Read", "Save"} /\ ret.fsErr = Nil) =>
        LET ext == AfterLastDot(ret.path)
        IN  IF ext \in {jpeg, png, gif, bmp, tiff}
            THEN /\ CodecCalled = CodecFor(ret.op, ext)
                 /\ ret.out.err = ret.res.err
                 /\ ret.op = "Read" => ret.out.img = ret.res.img
            ELSE /\ CodecCalled = <<>>
                 /\ ret.out.err = (IF ret.op = "Read" THEN DecodeFormatError
                                   ELSE EncodeFormatError)

\* An image read from a ".jpeg" path has been saved to a ".bmp" path with
\* several dots, with no error.
C7_Witness ==
    /\ ret.op = "Save"
    /\ ret.path = <<"a", ".", "p", "n", "g", ".", "b", "m", "p">>
    /\ ret.fsErr = Nil
    /\ ret.out.codec = "bmp.Encode"
    /\ ret.out.err = Nil
    /\ m \in DecodedImages

====
